---- MODULE Spec2Model ----
(***************************************************************************)
(* ServiceNowAdapter (src/main.js): the adapter facade over the connector. *)
(*                                                                         *)
(* The adapter is single threaded and callback driven.  An operation       *)
(* (connect, healthcheck, getRecord, postRecord) runs to the point where   *)
(* it hands a callback to connector.get / connector.post and returns; the  *)
(* connector later invokes that callback once with (data, error).  The     *)
(* callback body runs to completion, or until a JavaScript exception       *)
(* leaves it.                                                              *)
(*                                                                         *)
(* JavaScript values are tagged records [t, v]: objects live in a heap and *)
(* are passed by reference [t |-> "ref", v |-> address], so that two       *)
(* references to one object are visible as such.  The global `log` that    *)
(* the runtime provides has no effect on the adapter's state and is left   *)
(* out.                                                                    *)
(***************************************************************************)
EXTENDS Integers, Sequences, FiniteSets, TLC

\* Bounds of the model.
MaxCalls == 2   \* operations started on the adapter
MaxItems == 2   \* entries of a GET response's result list

VARIABLES id, calls, heap, inflight, events

vars == <<id, calls, heap, inflight, events>>

----------------------------------------------------------------------------
\* JavaScript values

Undefined == [t |-> "undefined", v |-> "undefined"]
NullVal == [t |-> "null", v |-> "null"]
ErrVal(e) == [t |-> "error", v |-> e]
Str(s) == [t |-> "string", v |-> s]
Ref(a) == [t |-> "ref", v |-> a]
Arr(s) == [t |-> "array", v |-> s]

\* if (x): undefined and null are falsy; error values, objects, arrays and
\* the non-empty strings used here are truthy.
Truthy(x) == x.t \notin {"undefined", "null"}

\* The id the adapter instance is constructed with.
AdapterIds == {"sn-1"}

\* Errors the connector reports.
Errors == {"ECONNREFUSED", "hibernating"}

\* Raw change-request objects as the remote service serialises them.
ItemA ==
  [number |-> "CHG01", active |-> "true", priority |-> "1", description |-> "d1",
   work_start |-> "s1", work_end |-> "e1", sys_id |-> "k1"]

ItemB ==
  [number |-> "CHG02", active |-> "false", priority |-> "2", description |-> "d2",
   work_start |-> "s2", work_end |-> "e2", sys_id |-> "k2"]

RawItems == {ItemA, ItemB}

RawLists == UNION {[1..n -> RawItems] : n \in 0..MaxItems}

\* The serialised body of a response: JSON text of an object that has or
\* lacks a result field, or text that is not JSON at all.
GetBodies ==
  {[text |-> "html", hasResult |-> FALSE, result |-> <<>>],
   [text |-> "json", hasResult |-> FALSE, result |-> <<>>]}
  \cup {[text |-> "json", hasResult |-> TRUE, result |-> l] : l \in RawLists}

PostBodies ==
  {[text |-> "html", hasResult |-> FALSE, result |-> ItemA],
   [text |-> "json", hasResult |-> FALSE, result |-> ItemA]}
  \cup {[text |-> "json", hasResult |-> TRUE, result |-> i] : i \in RawItems}

\* What the connector passes to its callback: (data, error), exactly one of
\* them set.  data has an optional body.
GetResponses ==
  {[error |-> ErrVal(e), hasBody |-> FALSE, body |-> [text |-> "none", hasResult |-> FALSE, result |-> <<>>]] : e \in Errors}
  \cup {[error |-> NullVal, hasBody |-> FALSE, body |-> [text |-> "none", hasResult |-> FALSE, result |-> <<>>]]}
  \cup {[error |-> NullVal, hasBody |-> TRUE, body |-> b] : b \in GetBodies}

PostResponses ==
  {[error |-> ErrVal(e), hasBody |-> FALSE, body |-> [text |-> "none", hasResult |-> FALSE, result |-> ItemA]] : e \in Errors}
  \cup {[error |-> NullVal, hasBody |-> FALSE, body |-> [text |-> "none", hasResult |-> FALSE, result |-> ItemA]]}
  \cup {[error |-> NullVal, hasBody |-> TRUE, body |-> b] : b \in PostBodies}

NoResp == [error |-> Undefined, hasBody |-> FALSE, body |-> [text |-> "unset", hasResult |-> FALSE, result |-> <<>>]]

\* JSON.parse: the parsed object, or a SyntaxError when the text is not JSON.
JSONparse(body) ==
  IF body.text = "json"
  THEN [ok |-> TRUE, hasResult |-> body.hasResult, result |-> body.result]
  ELSE [ok |-> FALSE, hasResult |-> FALSE, result |-> body.result]

----------------------------------------------------------------------------
\* The heap of record objects

\* let recordData = { change_ticket_number: null, ... }
BlankRecord ==
  [change_ticket_number |-> "null", active |-> "null", priority |-> "null",
   description |-> "null", work_start |-> "null", work_end |-> "null",
   change_ticket_key |-> "null"]

\* A plausible slip: the template object is created once and shared by all calls.
FreshAddrShared(h) == 1

\* The object literal of each call is a new object.
FreshAddr(h) == Len(h) + 1

Store(h, a, obj) == IF a > Len(h) THEN Append(h, obj) ELSE [h EXCEPT ![a] = obj]

\* The seven field assignments of the forEach body and of postRecord.
AssignFields(item) ==
  [change_ticket_number |-> item.number, active |-> item.active,
   priority |-> item.priority, description |-> item.description,
   work_start |-> item.work_start, work_end |-> item.work_end,
   change_ticket_key |-> item.sys_id]

\* bodyData.result.forEach(...): loopData = recordData; assign; push(loopData).
RECURSIVE ForEachItem(_, _, _, _)
ForEachItem(h, a, items, out) ==
  IF items = <<>>
  THEN [heap |-> h, out |-> out]
  ELSE ForEachItem([h EXCEPT ![a] = AssignFields(Head(items))], a, Tail(items),
                   Append(out, Ref(a)))

----------------------------------------------------------------------------
\* The callbacks

CallbackEntry(of, data, error) == [ev |-> "callback", of |-> of, data |-> data, error |-> error]
EmitEntry(status, ident) == [ev |-> "emit", status |-> status, id |-> ident]

\* The callback getRecord hands to connector.get.  a is the address of the
\* call's recordData.  Result: the heap, the exception that left the
\* callback ("none" if none), and the invocations of getRecord's callback.
GetRecordHandler(h, a, resp) ==
  IF Truthy(resp.error)
  THEN [heap |-> h, thrown |-> "none", cb |-> <<CallbackEntry("getRecord", resp.error, Undefined)>>]
  ELSE IF ~resp.hasBody
  THEN [heap |-> h, thrown |-> "none",
        cb |-> <<CallbackEntry("getRecord", Arr(<<Str("Missing Data Body")>>), Undefined)>>]
  ELSE LET p == JSONparse(resp.body) IN
    IF ~p.ok
    THEN [heap |-> h, thrown |-> "SyntaxError", cb |-> <<>>]
    ELSE IF ~p.hasResult
    THEN [heap |-> h, thrown |-> "none",
          cb |-> <<CallbackEntry("getRecord", Arr(<<Str("Missing Data Results")>>), Undefined)>>]
    ELSE LET r == ForEachItem(h, a, p.result, <<>>) IN
      [heap |-> r.heap, thrown |-> "none",
       cb |-> <<CallbackEntry("getRecord", Arr(r.out), Undefined)>>]

\* The callback postRecord hands to connector.post.  outRecords is not
\* declared in postRecord: evaluating outRecords.push raises a ReferenceError.
PostRecordHandler(h, a, resp) ==
  IF Truthy(resp.error)
  THEN [heap |-> h, thrown |-> "none", cb |-> <<CallbackEntry("postRecord", resp.error, Undefined)>>]
  ELSE IF ~resp.hasBody
  THEN [heap |-> h, thrown |-> "ReferenceError", cb |-> <<>>]
  ELSE LET p == JSONparse(resp.body) IN
    IF ~p.ok
    THEN [heap |-> h, thrown |-> "SyntaxError", cb |-> <<>>]
    ELSE IF ~p.hasResult
    THEN [heap |-> h, thrown |-> "ReferenceError", cb |-> <<>>]
    ELSE [heap |-> [h EXCEPT ![a] = AssignFields(p.result)], thrown |-> "none",
          cb |-> <<CallbackEntry("postRecord", Ref(a), Undefined)>>]

\* emitOffline / emitOnline / emitStatus: this.emit(status, { id: this.id }).
emitStatus(status, ident) == [status |-> status, id |-> ident]

\* The arrow function healthcheck hands to getRecord, called with the
\* arguments args = (result, error).  Result: the events emitted and the
\* trace of the emission and of the optional callback's invocation.
HealthcheckArrow(args, hasCb, ident) ==
  IF Truthy(args.error)
  THEN [emitted |-> <<emitStatus("OFFLINE", ident)>>,
        trace |-> <<EmitEntry("OFFLINE", ident)>>
                  \o (IF hasCb THEN <<CallbackEntry("healthcheck", args.error, Undefined)>> ELSE <<>>)]
  ELSE [emitted |-> <<emitStatus("ONLINE", ident)>>,
        trace |-> <<EmitEntry("ONLINE", ident)>>
                  \o (IF hasCb THEN <<CallbackEntry("healthcheck", args.data, Undefined)>> ELSE <<>>)]

----------------------------------------------------------------------------
\* State

Probes == {"connect", "healthcheck"}

\* constructor(id, adapterProperties)
Init ==
  /\ id \in AdapterIds
  /\ calls = <<>>
  /\ heap = <<>>
  /\ inflight = {}
  /\ events = <<>>

\* The closure an operation leaves behind when it returns: its recordData
\* object (address a) and the callback registered with the connector.
NewCall(kind, hasCb, method, a) ==
  [kind |-> kind, hasCb |-> hasCb, method |-> method, rec |-> a,
   issued |-> <<method>>, st |-> "pending", resp |-> NoResp,
   thrown |-> "none", trace |-> <<>>]

\* connect(): this.healthcheck() with no callback, which calls getRecord:
\* the recordData literal, then connector.get.
connect ==
  /\ Len(calls) < MaxCalls
  /\ heap' = Store(heap, FreshAddr(heap), BlankRecord)
  /\ calls' = Append(calls, NewCall("connect", FALSE, "get", FreshAddr(heap)))
  /\ inflight' = inflight \cup {[call |-> Len(calls) + 1, method |-> "get"]}
  /\ UNCHANGED <<id, events>>

\* healthcheck(callback), the callback optional: calls getRecord.
healthcheck ==
  \E hasCb \in BOOLEAN :
    /\ Len(calls) < MaxCalls
    /\ heap' = Store(heap, FreshAddr(heap), BlankRecord)
    /\ calls' = Append(calls, NewCall("healthcheck", hasCb, "get", FreshAddr(heap)))
    /\ inflight' = inflight \cup {[call |-> Len(calls) + 1, method |-> "get"]}
    /\ UNCHANGED <<id, events>>

\* getRecord(callback): the recordData literal, then connector.get.
getRecord ==
  /\ Len(calls) < MaxCalls
  /\ heap' = Store(heap, FreshAddr(heap), BlankRecord)
  /\ calls' = Append(calls, NewCall("getRecord", TRUE, "get", FreshAddr(heap)))
  /\ inflight' = inflight \cup {[call |-> Len(calls) + 1, method |-> "get"]}
  /\ UNCHANGED <<id, events>>

\* postRecord(callback): the recordData literal, then connector.post.
postRecord ==
  /\ Len(calls) < MaxCalls
  /\ heap' = Store(heap, FreshAddr(heap), BlankRecord)
  /\ calls' = Append(calls, NewCall("postRecord", TRUE, "post", FreshAddr(heap)))
  /\ inflight' = inflight \cup {[call |-> Len(calls) + 1, method |-> "post"]}
  /\ UNCHANGED <<id, events>>

\* The connector answers a get: getRecord's callback runs, and inside it,
\* for a probe, healthcheck's arrow function.
ConnectorGetCallback ==
  \E c \in 1..Len(calls), resp \in GetResponses :
    /\ [call |-> c, method |-> "get"] \in inflight
    /\ LET r == GetRecordHandler(heap, calls[c].rec, resp)
           hc == IF calls[c].kind \in Probes /\ r.cb # <<>>
                 THEN HealthcheckArrow(r.cb[1], calls[c].hasCb, id)
                 ELSE [emitted |-> <<>>, trace |-> <<>>]
       IN
         /\ heap' = r.heap
         /\ events' = events \o hc.emitted
         /\ calls' = [calls EXCEPT ![c] =
              [@ EXCEPT !.st = "done", !.resp = resp, !.thrown = r.thrown,
                        !.trace = r.cb \o hc.trace]]
    /\ inflight' = inflight \ {[call |-> c, method |-> "get"]}
    /\ UNCHANGED id

\* The connector answers a post: postRecord's callback runs.
ConnectorPostCallback ==
  \E c \in 1..Len(calls), resp \in PostResponses :
    /\ [call |-> c, method |-> "post"] \in inflight
    /\ LET r == PostRecordHandler(heap, calls[c].rec, resp) IN
         /\ heap' = r.heap
         /\ calls' = [calls EXCEPT ![c] =
              [@ EXCEPT !.st = "done", !.resp = resp, !.thrown = r.thrown,
                        !.trace = r.cb]]
    /\ inflight' = inflight \ {[call |-> c, method |-> "post"]}
    /\ UNCHANGED <<id, events>>

Next ==
  \/ connect
  \/ healthcheck
  \/ getRecord
  \/ postRecord
  \/ ConnectorGetCallback
  \/ ConnectorPostCallback

Spec == Init /\ [][Next]_vars

----------------------------------------------------------------------------
\* Reading the state

IsDone(c) == calls[c].st = "done"

Succeeded(c) == ~Truthy(calls[c].resp.error)

OpOf(c) == IF calls[c].method = "get" THEN "getRecord" ELSE "postRecord"

\* The invocations, in order, of the callback passed to operation `of` by call c.
CallbacksOf(c, of) ==
  SelectSeq(calls[c].trace, LAMBDA e : e.ev = "callback" /\ e.of = of)

\* The status events call c emitted, in order.
EmitsOf(c) == SelectSeq(calls[c].trace, LAMBDA e : e.ev = "emit")

\* The position in call c's trace of its first entry of kind ev (0 if none).
FirstIndex(c, ev) ==
  LET S == {i \in 1..Len(calls[c].trace) : calls[c].trace[i].ev = ev}
  IN IF S = {} THEN 0 ELSE CHOOSE i \in S : \A j \in S : i <= j

\* The body of call c's response parsed to an object / to one with a result.
BodyParsed(c) == Succeeded(c) /\ calls[c].resp.hasBody /\ JSONparse(calls[c].resp.body).ok

HasResult(c) == BodyParsed(c) /\ JSONparse(calls[c].resp.body).hasResult

\* The record objects (addresses) that call c's operation delivered to its callback.
RefsIn(val) ==
  IF val.t = "ref" THEN {val.v}
  ELSE IF val.t = "array"
  THEN {val.v[i].v : i \in {j \in 1..Len(val.v) : val.v[j].t = "ref"}}
  ELSE {}

DeliveredRefs(c) ==
  UNION {RefsIn(calls[c].trace[i].data) :
           i \in {j \in 1..Len(calls[c].trace) : calls[c].trace[j].ev = "callback"}}

\* The records, as the caller reads them now, that call c's operation delivered.
RecordsIn(val) ==
  IF val.t = "ref" THEN <<heap[val.v]>>
  ELSE IF val.t = "array" /\ \A i \in 1..Len(val.v) : val.v[i].t = "ref"
  THEN [i \in 1..Len(val.v) |-> heap[val.v[i].v]]
  ELSE <<>>

DeliveredRecords(c) ==
  LET cbs == CallbacksOf(c, OpOf(c))
  IN IF cbs = <<>> THEN <<>> ELSE RecordsIn(cbs[1].data)

RecordFields ==
  {"change_ticket_number", "active", "priority", "description", "work_start",
   "work_end", "change_ticket_key"}

ItemValues(item) ==
  {item.number, item.active, item.priority, item.description, item.work_start,
   item.work_end, item.sys_id}

\* The field values call c's own response carries, and null.
OwnValues(c) ==
  {"null"} \cup
  (IF ~HasResult(c) THEN {}
   ELSE IF calls[c].method = "get"
   THEN UNION {ItemValues(calls[c].resp.body.result[i]) :
                 i \in 1..Len(calls[c].resp.body.result)}
   ELSE ItemValues(calls[c].resp.body.result))

CallIds == 1..Len(calls)

----------------------------------------------------------------------------
\* Claims

\* C1: in every health probe (healthcheck, also when started by connect) in
\* which the connector's get calls back with an error, the adapter emits
\* OFFLINE and never emits ONLINE for that probe.
C1_ErrorProbeEmitsOffline ==
  \A c \in CallIds :
    (IsDone(c) /\ calls[c].kind \in Probes /\ Truthy(calls[c].resp.error))
      => /\ EmitsOf(c) # <<>>
         /\ \A i \in 1..Len(EmitsOf(c)) : EmitsOf(c)[i].status = "OFFLINE"

\* C2: for every successful GET response whose parsed body has a result list
\* of N entries, getRecord delivers a sequence of exactly N records, the i-th
\* holding the mapped fields of the i-th entry, and the N records are
\* distinct objects.
C2_ListRecordsMappedAndDistinct ==
  \A c \in CallIds :
    (IsDone(c) /\ calls[c].method = "get" /\ HasResult(c))
      => LET cbs == CallbacksOf(c, "getRecord")
             L == calls[c].resp.body.result
         IN /\ Len(cbs) = 1
            /\ cbs[1].data.t = "array"
            /\ Len(cbs[1].data.v) = Len(L)
            /\ \A i \in 1..Len(L) :
                 /\ cbs[1].data.v[i].t = "ref"
                 /\ heap[cbs[1].data.v[i].v] = AssignFields(L[i])
            /\ \A i, j \in 1..Len(L) :
                 i # j => cbs[1].data.v[i].v # cbs[1].data.v[j].v

\* C3: for every successful POST response that carries no body, or whose
\* parsed body has no result field, postRecord invokes its callback exactly
\* once with a single record whose seven fields are all null, and raises no
\* exception.
C3_PostSentinelYieldsNullRecord ==
  \A c \in CallIds :
    (IsDone(c) /\ calls[c].method = "post" /\ Succeeded(c)
       /\ (~calls[c].resp.hasBody \/ (BodyParsed(c) /\ ~HasResult(c))))
      => LET cbs == CallbacksOf(c, "postRecord")
         IN /\ calls[c].thrown = "none"
            /\ Len(cbs) = 1
            /\ cbs[1].data.t = "ref"
            /\ heap[cbs[1].data.v] = BlankRecord

\* C4: for every connector error, getRecord (resp. postRecord) invokes the
\* caller's callback exactly once, with the connector's error value unchanged
\* in the error position (the second argument) and with no record data.
C4_ErrorInErrorPosition ==
  \A c \in CallIds :
    (IsDone(c) /\ calls[c].kind \in {"getRecord", "postRecord"}
       /\ Truthy(calls[c].resp.error))
      => LET cbs == CallbacksOf(c, OpOf(c))
         IN /\ Len(cbs) = 1
            /\ cbs[1].error = calls[c].resp.error
            /\ ~Truthy(cbs[1].data)

\* C5: when the body of a successful GET or POST response is present but is
\* not parseable, getRecord / postRecord invoke the caller's callback with an
\* error, not with a sentinel and not with records.
C5_MalformedBodyReported ==
  \A c \in CallIds :
    (IsDone(c) /\ calls[c].kind \in {"getRecord", "postRecord"}
       /\ Succeeded(c) /\ calls[c].resp.hasBody /\ ~BodyParsed(c))
      => LET cbs == CallbacksOf(c, OpOf(c))
         IN /\ Len(cbs) = 1
            /\ Truthy(cbs[1].error)
            /\ ~Truthy(cbs[1].data)

\* C6: every connect() issues exactly one connector get; before the connector
\* calls back no status event is emitted; once the connector has called back
\* exactly one status event has been emitted, ONLINE or OFFLINE, carrying the
\* id given at construction.
C6_ConnectEmitsExactlyOnce ==
  \A c \in CallIds :
    calls[c].kind = "connect"
      => /\ calls[c].issued = <<"get">>
         /\ ~IsDone(c) => EmitsOf(c) = <<>>
         /\ IsDone(c) =>
              /\ Len(EmitsOf(c)) = 1
              /\ EmitsOf(c)[1].status \in {"ONLINE", "OFFLINE"}
              /\ EmitsOf(c)[1].id = id

\* C7: in every health probe in which the connector's get calls back without
\* an error, the adapter emits ONLINE and never OFFLINE.
C7_SuccessProbeEmitsOnline ==
  \A c \in CallIds :
    (IsDone(c) /\ calls[c].kind \in Probes /\ Succeeded(c))
      => /\ EmitsOf(c) # <<>>
         /\ \A i \in 1..Len(EmitsOf(c)) : EmitsOf(c)[i].status = "ONLINE"

\* C8: for every successful GET response getRecord raises no exception; it
\* delivers the one-element sequence "Missing Data Body" when the response has
\* no body and "Missing Data Results" when the parsed body has no result, and
\* these differ from the empty sequence of an empty result list.
C8_GetSentinelsNoException ==
  \A c \in CallIds :
    (IsDone(c) /\ calls[c].method = "get" /\ Succeeded(c))
      => LET cbs == CallbacksOf(c, "getRecord")
         IN /\ calls[c].thrown = "none"
            /\ ~calls[c].resp.hasBody =>
                 /\ Len(cbs) = 1
                 /\ cbs[1].data = Arr(<<Str("Missing Data Body")>>)
                 /\ cbs[1].data # Arr(<<>>)
            /\ (BodyParsed(c) /\ ~HasResult(c)) =>
                 /\ Len(cbs) = 1
                 /\ cbs[1].data = Arr(<<Str("Missing Data Results")>>)
                 /\ cbs[1].data # Arr(<<>>)

\* C9: whatever the order in which the calls on one adapter start and their
\* connector requests complete, two calls that received the same raw payload
\* have delivered value-equal records, no record object is delivered by two
\* different calls, and every field of a delivered record holds null or a
\* value of that call's own response.
C9_CallsAreIndependent ==
  /\ \A c1, c2 \in CallIds :
       (c1 < c2 /\ IsDone(c1) /\ IsDone(c2))
         => /\ DeliveredRefs(c1) \cap DeliveredRefs(c2) = {}
            /\ (calls[c1].method = calls[c2].method /\ calls[c1].resp = calls[c2].resp)
                 => DeliveredRecords(c1) = DeliveredRecords(c2)
  /\ \A c \in CallIds :
       IsDone(c) =>
         LET recs == DeliveredRecords(c)
             own == OwnValues(c)
         IN \A i \in 1..Len(recs) : \A f \in RecordFields : recs[i][f] \in own

\* Two completed calls of the same operation that received the same payload,
\* with records in it, next to each other on one adapter.
C9_Witness ==
  \E c1, c2 \in CallIds :
    /\ c1 < c2 /\ IsDone(c1) /\ IsDone(c2)
    /\ calls[c1].method = calls[c2].method
    /\ calls[c1].resp = calls[c2].resp
    /\ HasResult(c1)
    /\ DeliveredRecords(c1) # <<>>
    /\ DeliveredRecords(c1)[1] # BlankRecord

====
